---- MODULE Spec2Model ----
(***************************************************************************)
(* Model of the derived-statistics caching orchestrator of                 *)
(* data_measurements/dataset_statistics.py (DatasetStatisticsCacheClass    *)
(* and nPMIStatisticsCacheClass) together with the nPMI engine it calls.   *)
(*                                                                         *)
(* Values.  An optional Python value is a tuple: <<>> is None and <<x>> is *)
(* the value x.  A float cell of a table is <<v>> (v in thousandths) or    *)
(* <<>> for NaN.  A word label is a string; NaNLabel is the missing label. *)
(***************************************************************************)
EXTENDS Integers, Sequences, FiniteSets, TLC

\* ------------------------------------------------------------------ bounds
\* How many of Corpora a run may be constructed over.
NumCorpora == 2

\* ------------------------------------------------------- program constants
MIN_VOCAB_COUNT == 10
_NUM_VOCAB_BATCHES == 2000
_TOP_N == 100

WORD == "word"
VOCAB == "vocab"
CNT == "count"
PROP == "proportion"

_IDENTITY_TERMS ==
  << "man", "woman", "non-binary", "gay", "lesbian", "queer", "trans",
     "straight", "cis", "she", "her", "hers", "he", "him", "his", "they",
     "them", "their", "theirs", "himself", "herself" >>

\* stopwords.words("english") restricted to the words of Corpora, followed by
\* the literal additions and the numerals of the source.
_CLOSED_CLASS ==
  { "the", "and", "she", "her", "hers", "he", "him", "his", "they", "them",
    "their", "theirs", "himself", "herself",
    "t", "n", "ll", "d", "wasn", "weren", "won", "aren", "wouldn", "shouldn",
    "didn", "don", "hasn", "ain", "couldn", "doesn", "hadn", "haven", "isn",
    "mightn", "mustn", "needn", "shan", "would", "could", "dont", "u",
    "0", "1", "2", "3", "4", "5", "6", "7", "8", "9", "10", "11", "12", "13",
    "14", "15", "16", "17", "18", "19", "20" }

\* ------------------------------------------------------------ Python values
None == << >>
Some(x) == << x >>
IsNone(o) == o = << >>
Val(o) == o[1]

NaN == << >>
NaNLabel == "<NaN>"

Range(s) == { s[i] : i \in DOMAIN s }
Rep(w, n) == [i \in 1..n |-> w]

\* ------------------------------------------------------------------ corpora
\* The extracted-text dataset after tokenization: documents of tokens.
Corpora ==
  << \* she 12, he 11, they 3, doctor 3, nurse 2, the 2
     << Rep("she", 6) \o << "doctor", "the" >>,
        Rep("she", 5) \o Rep("he", 4) \o << "nurse" >>,
        Rep("he", 7) \o << "doctor" >> \o Rep("they", 2),
        << "they", "nurse", "the" >>,
        << "she", "doctor" >> >>,
     \* the same with the token "null" in two documents
     << Rep("she", 6) \o << "doctor", "null" >>,
        Rep("she", 5) \o Rep("he", 4) \o << "nurse", "null" >>,
        Rep("he", 7) \o << "doctor" >> \o Rep("they", 2),
        << "they", "nurse" >>,
        << "she", "doctor" >> >>,
     \* a single document: every word shares every document with every term
     << Rep("she", 10) \o Rep("he", 10) \o << "doctor" >> >>,
     \* no document at all
     << >> >>

\* The identity terms a user selects subgroups from, in the model.
PairTermList == << "she", "he", "they" >>
PairTerms == Range(PairTermList)

\* ------------------------------------------------------------ Python sorted
\* The identity terms in the order of Python's string comparison.
LexOrder ==
  << "cis", "gay", "he", "her", "hers", "herself", "him", "himself", "his",
     "lesbian", "man", "non-binary", "queer", "she", "straight", "their",
     "theirs", "them", "they", "trans", "woman" >>
LexRank(t) == CHOOSE i \in DOMAIN LexOrder : LexOrder[i] = t
StrLess(a, b) == LexRank(a) < LexRank(b)

\* sorted(subgroup_pair) of a two-element list.
Unsorted(pair) == pair
Sorted(pair) ==
  IF StrLess(pair[2], pair[1]) THEN << pair[2], pair[1] >> ELSE pair

\* ------------------------------------------------------------- cache files
tokenized_df_fid == "tokenized_df.feather"
vocab_counts_df_fid == "vocab_counts.feather"
length_df_fid == "length_df.feather"
length_stats_json_fid == "length_stats.json"
fig_tok_length_fid == "fig_tok_length.png"
general_stats_json_fid == "general_stats_dict.json"
sorted_top_vocab_df_fid == "sorted_top_vocab.feather"
npmi_terms_fid == "npmi_terms.json"
pmi_dataset_cache_dir == "pmi_files"
\* The text-duplicates helper's cache file.
dups_fid == "text_duplicates/text_duplicates.json"

pjoin(dir, name) == dir \o "/" \o name

\* The file name made from the first term of the pair alone.
FirstTermNpmiFid(subgroup_pair) ==
  pjoin(pmi_dataset_cache_dir, subgroup_pair[1] \o "_npmi.csv")

\* "-".join(subgroup_pair) + "_npmi.csv" under the pmi directory.
JointNpmiFid(subgroup_pair) ==
  pjoin(pmi_dataset_cache_dir,
        subgroup_pair[1] \o "-" \o subgroup_pair[2] \o "_npmi.csv")

\* define_subgroup_files: (npmi, pmi, cooc) file ids of one subgroup.
define_subgroup_files(subgroup) ==
  << pjoin(pmi_dataset_cache_dir, subgroup \o "_npmi.csv"),
     pjoin(pmi_dataset_cache_dir, subgroup \o "_pmi.csv"),
     pjoin(pmi_dataset_cache_dir, subgroup \o "_vocab_cooc.csv") >>

\* --------------------------------------------------------------- dataframes
\* A dataframe: [idx |-> index name, cols |-> column names,
\*               rows |-> <<[label |-> word, cells |-> <<cell, ...>>], ...>>].
ColPos(df, c) == CHOOSE k \in DOMAIN df.cols : df.cols[k] = c
HasCol(df, c) == c \in Range(df.cols)
Labels(df) == { df.rows[i].label : i \in DOMAIN df.rows }
RowOf(df, l) == df.rows[CHOOSE i \in DOMAIN df.rows : df.rows[i].label = l]
CellAt(df, l, c) == RowOf(df, l).cells[ColPos(df, c)]

\* df[[c1, c2, ...]]: the columns named, in the order named.
SelectCols(df, names) ==
  [ idx |-> df.idx, cols |-> names,
    rows |-> [i \in DOMAIN df.rows |->
               [ label |-> df.rows[i].label,
                 cells |-> [k \in DOMAIN names |->
                             df.rows[i].cells[ColPos(df, names[k])]] ]] ]

HasNaN(row) == \E k \in DOMAIN row.cells : row.cells[k] = NaN
KeepAllRows(df) == df
\* DataFrame.dropna(): the rows with no missing cell.
dropna(df) ==
  [ df EXCEPT !.rows = SelectSeq(df.rows, LAMBDA r : ~HasNaN(r)) ]

\* a.join(b, how="inner"): the rows of a whose label b has too, a's order.
InnerJoin(a, b) ==
  LET keep == SelectSeq(a.rows, LAMBDA r : r.label \in Labels(b))
  IN  [ idx |-> a.idx, cols |-> a.cols \o b.cols,
        rows |-> [i \in DOMAIN keep |->
                   [ label |-> keep[i].label,
                     cells |-> keep[i].cells \o RowOf(b, keep[i].label).cells ]] ]

CellSub(x, y) == IF x = NaN \/ y = NaN THEN NaN ELSE << x[1] - y[1] >>

\* x sorts before y in ascending order, missing values last.
CellLeq(x, y) == IF y = NaN THEN TRUE ELSE IF x = NaN THEN FALSE ELSE x[1] <= y[1]

RECURSIVE InsertRow(_, _, _)
InsertRow(sorted, r, k) ==
  IF sorted = << >> THEN << r >>
  ELSE IF CellLeq(Head(sorted).cells[k], r.cells[k])
       THEN << Head(sorted) >> \o InsertRow(Tail(sorted), r, k)
       ELSE << r >> \o sorted

RECURSIVE SortRows(_, _)
SortRows(rows, k) ==
  IF rows = << >> THEN << >>
  ELSE InsertRow(SortRows(SubSeq(rows, 1, Len(rows) - 1), k), rows[Len(rows)], k)

\* The rows in the order they are in.
keep_order(df, c) == df
\* DataFrame.sort_values(by=c, ascending=True).
sort_values(df, c) == [ df EXCEPT !.rows = SortRows(df.rows, ColPos(df, c)) ]

IsSortedBy(df, c) ==
  \A i \in 1..(Len(df.rows) - 1) :
    CellLeq(df.rows[i].cells[ColPos(df, c)], df.rows[i + 1].cells[ColPos(df, c)])

\* --------------------------------------------------------------- vocabulary
\* Every token of the corpora and documents of the model, in CountVectorizer's
\* feature order (Python's string order: capitals first).
AllWords ==
  << "The", "and", "cat", "doctor", "dog", "he", "null", "nurse", "play",
     "sat", "she", "the", "they" >>
SeqOfWords(S) == SelectSeq(AllWords, LAMBDA w : w \in S)

Occurrences(doc, w) == Cardinality({ i \in DOMAIN doc : doc[i] = w })
Vocabulary(docs) == UNION { Range(docs[i]) : i \in DOMAIN docs }

RECURSIVE SumOver(_, _)
SumOver(f, S) ==
  IF S = {} THEN 0
  ELSE LET x == CHOOSE y \in S : TRUE IN f[x] + SumOver(f, S \ {x})

\* np.linspace(0, nrows, _NUM_VOCAB_BATCHES).astype(int)[i], i from 0.
BatchEdge(i, nrows) == (i * nrows) \div (_NUM_VOCAB_BATCHES - 1)

\* The rows of a batch taken with its end row included.
EndInclusiveBatchesHolding(r, nrows) ==
  Cardinality({ i \in 0..(_NUM_VOCAB_BATCHES - 2) :
                  BatchEdge(i, nrows) <= r /\ r <= BatchEdge(i + 1, nrows) })
\* How many of the batches document_matrix[batches[i]: batches[i + 1]]
\* hold row r (rows from 0).
BatchesHolding(r, nrows) ==
  Cardinality({ i \in 0..(_NUM_VOCAB_BATCHES - 2) :
                  BatchEdge(i, nrows) <= r /\ r < BatchEdge(i + 1, nrows) })

\* cvec.fit raises ValueError on an empty vocabulary.
cvec_fit_raises(docs) == Vocabulary(docs) = {}

\* count_vocab_frequencies: word |-> sum over the batches of its occurrences.
BatchedCounts(docs) ==
  LET held == [r \in DOMAIN docs |-> BatchesHolding(r - 1, Len(docs))]
  IN  [w \in Vocabulary(docs) |->
        SumOver([r \in DOMAIN docs |-> held[r] * Occurrences(docs[r], w)],
                DOMAIN docs)]

\* count_vocab_frequencies of each corpus, evaluated once.
WordCounts == [c \in DOMAIN Corpora |-> BatchedCounts(Corpora[c])]
count_vocab_frequencies(docs) ==
  IF \E c \in DOMAIN Corpora : Corpora[c] = docs
  THEN WordCounts[CHOOSE c \in DOMAIN Corpora : Corpora[c] = docs]
  ELSE BatchedCounts(docs)

\* A vocabulary table: [idx |-> index name,
\*                      tab |-> [word |-> [count, total]]]; the proportion of
\* a word is count / total.
calc_p_word(word_count) ==
  LET total == SumOver(word_count, DOMAIN word_count)
  IN  [ idx |-> WORD,
        tab |-> [w \in DOMAIN word_count |->
                  [count |-> word_count[w], total |-> total]] ]

\* The table as it is, no row dropped.
drop_nothing(vocab_counts_df) == vocab_counts_df
\* filter_vocab: drop(_CLOSED_CLASS, errors="ignore"), proportions again.
filter_vocab(vocab_counts_df) ==
  LET kept == DOMAIN vocab_counts_df.tab \ _CLOSED_CLASS
      denom == SumOver([w \in kept |-> vocab_counts_df.tab[w].count], kept)
  IN  [ idx |-> vocab_counts_df.idx,
        tab |-> [w \in kept |->
                  [count |-> vocab_counts_df.tab[w].count, total |-> denom]] ]

\* _set_idx_col_names: a table read back without its index takes the VOCAB
\* column as its index.
_set_idx_col_names(input_vocab_df) ==
  IF input_vocab_df.idx # VOCAB THEN [ input_vocab_df EXCEPT !.idx = VOCAB ]
  ELSE input_vocab_df

\* ds_utils.write_df / read_df of a vocabulary table: feather keeps the
\* columns (count, proportion, vocab) and no index.
write_df_vocab(df) == [ df EXCEPT !.idx = "" ]
read_df_vocab(file) == file

\* ---------------------------------------------------------------------- csv
\* pandas' default na_values.
NA_VALUES ==
  { "", "#N/A", "#N/A N/A", "#NA", "-1.#IND", "-1.#QNAN", "-NaN", "-nan",
    "1.#IND", "1.#QNAN", "<NA>", "N/A", "NA", "NULL", "NaN", "None", "n/a",
    "nan", "null" }

\* DataFrame.to_csv: a header line holding the index name (empty when it has
\* none) and the column names; a missing value is an empty field.
to_csv(df) ==
  [ header |-> << df.idx >> \o df.cols,
    lines |-> [i \in DOMAIN df.rows |->
                [ label |-> IF df.rows[i].label = NaNLabel THEN ""
                            ELSE df.rows[i].label,
                  cells |-> df.rows[i].cells ]] ]

\* pd.read_csv: every column is a data column (the first one, which holds
\* the words, too); a nameless column is "Unnamed: 0"; a field that is one
\* of NA_VALUES reads as missing.
read_csv(file) ==
  [ columns |-> << IF file.header[1] = "" THEN "Unnamed: 0" ELSE file.header[1] >>
                \o Tail(file.header),
    lines |-> [i \in DOMAIN file.lines |->
                [ label |-> IF file.lines[i].label \in NA_VALUES THEN NaNLabel
                            ELSE file.lines[i].label,
                  cells |-> file.lines[i].cells ]] ]

\* _set_idx_cols_from_cache.  The column taken as index is the first column
\* of every file this program writes.  subgroup and calc_str are "" for None.
\* The result is [ok |-> FALSE] when assigning the column names raises
\* ValueError (the number of names differs from the number of columns).
\* With none of the three columns there the table keeps its default index
\* (0, 1, ...) and the words stay a data column.
_set_idx_cols_from_cache(csv_df, subgroup, calc_str) ==
  LET found == \/ "Unnamed: 0" \in Range(csv_df.columns)
               \/ WORD \in Range(csv_df.columns)
               \/ VOCAB \in Range(csv_df.columns)
      ncols == IF found THEN Len(csv_df.columns) - 1 ELSE Len(csv_df.columns)
      cols == IF found THEN Tail(csv_df.columns) ELSE csv_df.columns
      name == IF subgroup # "" /\ calc_str # "" THEN subgroup \o "-" \o calc_str
              ELSE IF subgroup # "" THEN subgroup
              ELSE calc_str
      renamed == IF name # "" THEN << name >> ELSE cols
  IN  IF name # "" /\ ncols # 1 THEN [ ok |-> FALSE ]
      ELSE [ ok |-> TRUE,
             df |-> IF found
                    THEN [ idx |-> WORD, cols |-> renamed, rows |-> csv_df.lines ]
                    ELSE [ idx |-> "", cols |-> renamed,
                           rows |-> [i \in DOMAIN csv_df.lines |->
                             [ label |-> ToString(i - 1),
                               cells |-> << IF csv_df.lines[i].label = NaNLabel
                                            THEN NaN
                                            ELSE << csv_df.lines[i].label >> >>
                                         \o csv_df.lines[i].cells ]] ] ]

\* -------------------------------------------------------------- nPMI engine
\* The class nPMI (data_measurements/npmi/npmi.py), from its specification.
\* 1000 * ln(n) for n in 1..64, rounded.
LnMilliTable ==
  << 0, 693, 1099, 1386, 1609, 1792, 1946, 2079, 2197, 2303, 2398, 2485,
     2565, 2639, 2708, 2773, 2833, 2890, 2944, 2996, 3045, 3091, 3135, 3178,
     3219, 3258, 3296, 3332, 3367, 3401, 3434, 3466, 3497, 3526, 3555, 3584,
     3611, 3638, 3664, 3689, 3714, 3738, 3761, 3784, 3807, 3829, 3850, 3871,
     3892, 3912, 3932, 3951, 3970, 3989, 4007, 4025, 4043, 4060, 4078, 4094,
     4111, 4127, 4143, 4159 >>
LnMilli(n) == LnMilliTable[n]

DocsWith(docs, w) == { i \in DOMAIN docs : w \in Range(docs[i]) }

\* Number of tokens that are the word in the documents holding the term.
TokenCoOccurrence(docs, term, w) ==
  SumOver([i \in DOMAIN docs |->
            IF term \in Range(docs[i]) THEN Occurrences(docs[i], w) ELSE 0],
          DOMAIN docs)
\* Number of documents holding both the term and the word.
CoOccurrence(docs, term, w) ==
  Cardinality(DocsWith(docs, term) \cap DocsWith(docs, w))

\* pmi(word) = log(p(term,word) / (p(term) p(word))), in thousandths.
PmiMilli(docs, term, w) ==
  LnMilli(CoOccurrence(docs, term, w) * Len(docs))
  - LnMilli(Cardinality(DocsWith(docs, term)) * Cardinality(DocsWith(docs, w)))

\* npmi(word) = pmi(word) / -log(p(term,word)), in thousandths; 0/0 is NaN.
NpmiCell(docs, term, w) ==
  LET denom == LnMilli(Len(docs)) - LnMilli(CoOccurrence(docs, term, w))
  IN  IF denom = 0 THEN NaN
      ELSE << (PmiMilli(docs, term, w) * 1000) \div denom >>

\* calc_metrics(term): <<co-occurrence table over the vocabulary, pmi table,
\* npmi table>>; a word that never co-occurs with the term has no pmi and no
\* npmi row.
Metrics(subgroup, vocabulary, docs) ==
  LET words == SeqOfWords(vocabulary)
      cowords == SelectSeq(words, LAMBDA w : CoOccurrence(docs, subgroup, w) > 0)
  IN  << [ idx |-> WORD, cols |-> << subgroup \o "-count" >>,
           rows |-> [i \in DOMAIN words |->
                      [ label |-> words[i],
                        cells |-> << << CoOccurrence(docs, subgroup, words[i]) >> >> ]] ],
         [ idx |-> WORD, cols |-> << subgroup \o "-pmi" >>,
           rows |-> [i \in DOMAIN cowords |->
                      [ label |-> cowords[i],
                        cells |-> << << PmiMilli(docs, subgroup, cowords[i]) >> >> ]] ],
         [ idx |-> WORD, cols |-> << subgroup \o "-npmi" >>,
           rows |-> [i \in DOMAIN cowords |->
                      [ label |-> cowords[i],
                        cells |-> << NpmiCell(docs, subgroup, cowords[i]) >> ]] ] >>

\* calc_metrics of each corpus over its own vocabulary, evaluated once.
MetricsOfCorpus ==
  [c \in DOMAIN Corpora |->
    [g \in Range(PairTermList) |-> Metrics(g, Vocabulary(Corpora[c]), Corpora[c])]]
calc_metrics(subgroup, vocab_counts_df, docs) ==
  IF /\ subgroup \in Range(PairTermList)
     /\ DOMAIN vocab_counts_df.tab = Vocabulary(docs)
     /\ \E c \in DOMAIN Corpora : Corpora[c] = docs
  THEN MetricsOfCorpus[CHOOSE c \in DOMAIN Corpora : Corpora[c] = docs][subgroup]
  ELSE Metrics(subgroup, DOMAIN vocab_counts_df.tab, docs)

\* calc_paired_metrics(subgroup_pair, subgroup_dict): the two subgroups'
\* tables joined on their shared words, and the bias
\* npmi(first sorted) - npmi(second sorted).
calc_paired_metrics(subgroup_pair, subgroup_dict) ==
  LET pair == Sorted(subgroup_pair)
      shared_npmi == InnerJoin(subgroup_dict[pair[1]][3], subgroup_dict[pair[2]][3])
      shared_count == InnerJoin(subgroup_dict[pair[1]][1], subgroup_dict[pair[2]][1])
      bias == [ idx |-> shared_npmi.idx, cols |-> << "npmi-bias" >>,
                rows |-> [i \in DOMAIN shared_npmi.rows |->
                  [ label |-> shared_npmi.rows[i].label,
                    cells |-> << CellSub(
                      CellAt(shared_npmi, shared_npmi.rows[i].label, pair[1] \o "-npmi"),
                      CellAt(shared_npmi, shared_npmi.rows[i].label, pair[2] \o "-npmi")) >> ]] ]
  IN  ("npmi-bias" :> bias) @@ ("npmi" :> shared_npmi) @@ ("count" :> shared_count)

\* ------------------------------------------------------- joint nPMI helpers
Put(d, k, v) == [f \in DOMAIN d \cup {k} |-> IF f = k THEN v ELSE d[f]]

\* make_npmi_fig(paired_results, subgroup_pair): the table shown in the UI.
\* [ok |-> FALSE] when astype(int) meets a missing count or sort_values has
\* no "npmi-bias" column to sort by.
make_npmi_fig(paired_results, subgroup_pair) ==
  LET subgroup1 == subgroup_pair[1]
      subgroup2 == subgroup_pair[2]
      has_bias == "npmi-bias" \in DOMAIN paired_results
      first == IF has_bias THEN paired_results["npmi-bias"]
               ELSE paired_results["npmi"]
      Aligned(df, l, c) == IF l \in Labels(df) THEN CellAt(df, l, c) ELSE NaN
      Row(l) ==
        (IF has_bias
         THEN << Aligned(paired_results["npmi-bias"], l, "npmi-bias") >>
         ELSE << >>)
        \o << Aligned(paired_results["npmi"], l, subgroup1 \o "-npmi"),
              Aligned(paired_results["count"], l, subgroup1 \o "-count") >>
        \o (IF subgroup1 # subgroup2
            THEN << Aligned(paired_results["npmi"], l, subgroup2 \o "-npmi"),
                    Aligned(paired_results["count"], l, subgroup2 \o "-count") >>
            ELSE << >>)
      cols ==
        (IF has_bias THEN << "npmi-bias" >> ELSE << >>)
        \o << subgroup1 \o "-npmi", subgroup1 \o "-count" >>
        \o (IF subgroup1 # subgroup2
            THEN << subgroup2 \o "-npmi", subgroup2 \o "-count" >>
            ELSE << >>)
      UI_results ==
        [ idx |-> first.idx, cols |-> cols,
          rows |-> [i \in DOMAIN first.rows |->
                     [ label |-> first.rows[i].label,
                       cells |-> Row(first.rows[i].label) ]] ]
      int_raises ==
        \E i \in DOMAIN paired_results["count"].rows :
          HasNaN(paired_results["count"].rows[i])
  IN  IF int_raises \/ ~has_bias THEN [ ok |-> FALSE ]
      ELSE [ ok |-> TRUE, df |-> sort_values(UI_results, "npmi-bias") ]

\* do_npmi(subgroup_pair, subgroup_dict) over the vocabulary and tokenized
\* corpus the engine is given (None when not in memory).  In its result calcs
\* lists the subgroups calc_metrics was invoked for, paired says whether
\* calc_paired_metrics was; err names the exception that ended the call.
\* do_npmi_result: the return, given the table make_npmi_fig made.
do_npmi_result(todo, dict, UI) ==
  IF UI.ok
  THEN [ err |-> "", calcs |-> todo, paired |-> TRUE, dict |-> dict,
         UI_results |-> UI.df ]
  ELSE [ err |-> "ValueError", calcs |-> todo, paired |-> TRUE, dict |-> dict ]

\* do_npmi_paired: calc_paired_metrics and make_npmi_fig over the filled
\* subgroup_dict.
do_npmi_paired(pair, todo, dict) ==
  do_npmi_result(todo, dict,
                 make_npmi_fig(calc_paired_metrics(pair, dict), pair))

\* do_npmi_calcs: calc_metrics for the subgroups todo, those not in
\* subgroup_dict.
do_npmi_calcs(pair, subgroup_dict, vocab, tokenized, todo) ==
  IF todo # << >> /\ (IsNone(vocab) \/ IsNone(tokenized))
  THEN [ err |-> "TypeError", calcs |-> << todo[1] >>, paired |-> FALSE,
         dict |-> subgroup_dict ]
  ELSE do_npmi_paired(pair, todo,
         [g \in DOMAIN subgroup_dict \cup Range(pair) |->
           IF g \in DOMAIN subgroup_dict THEN subgroup_dict[g]
           ELSE calc_metrics(g, Val(vocab), Val(tokenized))])

\* The loop with "if subgroup not in subgroup_dict" taken out: calc_metrics for
\* both subgroups.
do_npmi_recompute_all(pair, subgroup_dict, vocab, tokenized) ==
  do_npmi_calcs(pair, subgroup_dict, vocab, tokenized, pair)

do_npmi_sorted(pair, subgroup_dict, vocab, tokenized) ==
  do_npmi_calcs(pair, subgroup_dict, vocab, tokenized,
                SelectSeq(pair, LAMBDA g : g \notin DOMAIN subgroup_dict))

do_npmi(subgroup_pair, subgroup_dict, vocab, tokenized) ==
  do_npmi_sorted(Sorted(subgroup_pair), subgroup_dict, vocab, tokenized)

\* The Python result False whatever is persisted.
fail_cached_npmi_scores(subgroup, subgroup_fids, d) ==
  [ found |-> FALSE, ok |-> TRUE ]

\* load_or_fail_cached_npmi_scores(subgroup, subgroup_fids) on the files d:
\* found is FALSE for the Python result False; ok is FALSE when
\* _set_idx_cols_from_cache raises.
load_or_fail_cached_npmi_scores(subgroup, subgroup_fids, d) ==
  IF /\ subgroup_fids[1] \in DOMAIN d
     /\ subgroup_fids[2] \in DOMAIN d
     /\ subgroup_fids[3] \in DOMAIN d
  THEN LET cooc == _set_idx_cols_from_cache(read_csv(d[subgroup_fids[3]]), subgroup, "count")
           pmi == _set_idx_cols_from_cache(read_csv(d[subgroup_fids[2]]), subgroup, "pmi")
           npmi == _set_idx_cols_from_cache(read_csv(d[subgroup_fids[1]]), subgroup, "npmi")
       IN  IF cooc.ok /\ pmi.ok /\ npmi.ok
           THEN [ found |-> TRUE, ok |-> TRUE, dfs |-> << cooc.df, pmi.df, npmi.df >> ]
           ELSE [ found |-> TRUE, ok |-> FALSE ]
  ELSE [ found |-> FALSE, ok |-> TRUE ]

\* prepare_joint_npmi_df(subgroup_pair, subgroup_files): do_npmi over the
\* cached subgroups' tables, its result without the rows that miss a value.
\* loaded names the subgroups whose files were read.
\* prepare_joint_dropna: the return, given do_npmi's.
prepare_joint_dropna(cached, r) ==
  IF r.err # "" THEN r @@ [ loaded |-> cached ]
  ELSE [ r EXCEPT !.UI_results = dropna(r.UI_results) ] @@ [ loaded |-> cached ]

\* prepare_joint_from: given cached_results, each subgroup's
\* load_or_fail_cached_npmi_scores.
prepare_joint_from(subgroup_pair, vocab, tokenized, cached_results) ==
  LET cached == { g \in DOMAIN cached_results : cached_results[g].found }
  IN  IF \E g \in cached : ~cached_results[g].ok
      THEN [ err |-> "ValueError", calcs |-> << >>, paired |-> FALSE,
             dict |-> << >>, loaded |-> cached ]
      ELSE prepare_joint_dropna(cached,
             do_npmi(subgroup_pair, [g \in cached |-> cached_results[g].dfs],
                     vocab, tokenized))

prepare_joint_npmi_df(subgroup_pair, d, vocab, tokenized) ==
  prepare_joint_from(subgroup_pair, vocab, tokenized,
    [g \in Range(subgroup_pair) |->
      load_or_fail_cached_npmi_scores(g, define_subgroup_files(g), d)])

\* The files left as they are, no table of the subgroup written.
write_no_subgroup_data(subgroup, subgroup_dict, d) == d
\* write_subgroup_npmi_data(subgroup, subgroup_dict, subgroup_files).
write_subgroup_npmi_data(subgroup, subgroup_dict, d) ==
  LET fids == define_subgroup_files(subgroup)
      subgroup_cooc_df == subgroup_dict[subgroup][1]
      subgroup_pmi_df == subgroup_dict[subgroup][2]
      subgroup_npmi_df == subgroup_dict[subgroup][3]
  IN  Put(Put(Put(d, fids[1], to_csv(subgroup_npmi_df)),
              fids[2], to_csv(subgroup_pmi_df)),
          fids[3], to_csv(subgroup_cooc_df))

\* load_joint_npmi_df(joint_npmi_fid).
load_joint_npmi_df(file) ==
  LET r == _set_idx_cols_from_cache(read_csv(file), "", "")
  IN  [ r EXCEPT !.df = dropna(r.df) ]

\* The npmi_display_cols of a pair.
npmi_display_cols(subgroup1, subgroup2) ==
  << "npmi-bias", subgroup1 \o "-npmi", subgroup2 \o "-npmi",
     subgroup1 \o "-count", subgroup2 \o "-count" >>

\* -------------------------------------------------------------------- state
VARIABLES
  corpus,                    \* which of Corpora the dataset is
  use_cache, save,           \* DatasetStatisticsCacheClass.use_cache, .save
  disk,                      \* the cache directory: file id |-> content
  dirs,                      \* the directories made under it
  tokenized_df,              \* the attributes of DatasetStatisticsCacheClass
  vocab_counts_df,
  vocab_counts_filtered_df,
  fig_tok_length,
  fig_tok_length_png,
  length_df,
  length_stats_dict,
  general_stats_dict,
  sorted_top_vocab_df,
  duplicates_results,
  npmi_stats,                \* None or the nPMIStatisticsCacheClass object
  last                       \* the last call: what it did and returned

vars ==
  << corpus, use_cache, save, disk, dirs, tokenized_df, vocab_counts_df,
     vocab_counts_filtered_df, fig_tok_length, fig_tok_length_png, length_df,
     length_stats_dict, general_stats_dict, sorted_top_vocab_df,
     duplicates_results, npmi_stats, last >>

\* The program state a call starts in, with an empty record of the call:
\* steps are the compute steps invoked, in order; wrote the files and
\* directories written; read the files read; hits the keys persisted before
\* the call whose load-or-prepare started with use_cache set; err the
\* exception that ended the call; ret its return value.
Start ==
  [ disk |-> disk, dirs |-> dirs, tokenized_df |-> tokenized_df,
    vocab_counts_df |-> vocab_counts_df,
    vocab_counts_filtered_df |-> vocab_counts_filtered_df,
    fig_tok_length |-> fig_tok_length,
    fig_tok_length_png |-> fig_tok_length_png,
    length_df |-> length_df, length_stats_dict |-> length_stats_dict,
    general_stats_dict |-> general_stats_dict,
    sorted_top_vocab_df |-> sorted_top_vocab_df,
    duplicates_results |-> duplicates_results, npmi_stats |-> npmi_stats,
    steps |-> << >>, wrote |-> {}, read |-> {}, hits |-> {}, err |-> "",
    ret |-> None ]

\* The state a call ends in becomes the program state.
Finish(s, op, arg, load_only) ==
  /\ disk' = s.disk
  /\ dirs' = s.dirs
  /\ tokenized_df' = s.tokenized_df
  /\ vocab_counts_df' = s.vocab_counts_df
  /\ vocab_counts_filtered_df' = s.vocab_counts_filtered_df
  /\ fig_tok_length' = s.fig_tok_length
  /\ fig_tok_length_png' = s.fig_tok_length_png
  /\ length_df' = s.length_df
  /\ length_stats_dict' = s.length_stats_dict
  /\ general_stats_dict' = s.general_stats_dict
  /\ sorted_top_vocab_df' = s.sorted_top_vocab_df
  /\ duplicates_results' = s.duplicates_results
  /\ npmi_stats' = s.npmi_stats
  /\ last' = [ op |-> op, arg |-> arg, load_only |-> load_only,
               use_cache |-> use_cache, save |-> save,
               steps |-> s.steps, wrote |-> s.wrote, read |-> s.read,
               hits |-> s.hits, err |-> s.err, ret |-> s.ret ]
  /\ UNCHANGED << corpus, use_cache, save >>

Raise(s, e) == [ s EXCEPT !.err = e ]
Invoke(s, step) == [ s EXCEPT !.steps = Append(@, step) ]
Write(s, fid, content) ==
  [ s EXCEPT !.disk = Put(@, fid, content), !.wrote = @ \cup {fid} ]
Read(s, fid) == [ s EXCEPT !.read = @ \cup {fid} ]
\* Records, when the load-or-prepare of key fid starts with use_cache set,
\* that fid was persisted before the call (the call has not written it).
Enter(s, fid, uc) ==
  IF uc /\ fid \in DOMAIN s.disk /\ fid \notin s.wrote
  THEN [ s EXCEPT !.hits = @ \cup {fid} ]
  ELSE s

\* "self.use_cache and exists(fid)".
NeverCached(uc, fid, d) == FALSE
UseCached(uc, fid, d) == uc /\ fid \in DOMAIN d

\* "if self.save:".
AlwaysSave(sv) == TRUE
IfSave(sv) == sv

\* ------------------------------------------------------ tokenized corpus
\* do_tokenization: the tokenized text of the dataset.
do_tokenization == Corpora[corpus]

\* ds_utils.write_df / read_df of a table with the default index.
write_df(df) == df
read_df(file) == file

\* load_or_prepare_tokenized_df(load_only).
load_or_prepare_tokenized_df(s0, load_only) ==
  LET s == Enter(s0, tokenized_df_fid, use_cache)
  IN  IF s0.err # "" THEN s0
      ELSE IF UseCached(use_cache, tokenized_df_fid, s.disk)
      THEN [ Read(s, tokenized_df_fid) EXCEPT
               !.tokenized_df = Some(read_df(s.disk[tokenized_df_fid])) ]
      ELSE IF ~load_only
      THEN LET s1 == [ Invoke(s, "do_tokenization") EXCEPT
                         !.tokenized_df = Some(do_tokenization) ]
           IN  IF IfSave(save)
               THEN Write(s1, tokenized_df_fid, write_df(Val(s1.tokenized_df)))
               ELSE s1
      ELSE s

\* ------------------------------------------------------------ vocabulary
\* load_vocab.
load_vocab(s) ==
  [ Read(s, vocab_counts_df_fid) EXCEPT
      !.vocab_counts_df =
          Some(_set_idx_col_names(read_df_vocab(s.disk[vocab_counts_df_fid]))) ]

\* The vocabulary read and nothing else set.
load_vocab_alone(s) == load_vocab(s)
\* The cached branch of load_or_prepare_vocab: load_vocab(), then the
\* filtered vocabulary made from the vocabulary read.
load_vocab_and_filter(s) ==
  LET s1 == load_vocab(s)
  IN  [ s1 EXCEPT !.vocab_counts_filtered_df =
                    Some(filter_vocab(Val(s1.vocab_counts_df))) ]

\* load_or_prepare_vocab(load_only).
load_or_prepare_vocab(s0, load_only) ==
  LET s == Enter(s0, vocab_counts_df_fid, use_cache)
  IN  IF s0.err # "" THEN s0
      ELSE IF UseCached(use_cache, vocab_counts_df_fid, s.disk)
      THEN load_vocab_and_filter(s)
      ELSE IF ~load_only
      THEN LET s1 == load_or_prepare_tokenized_df(s, FALSE)
               s2 == Invoke(s1, "count_vocab_frequencies")
               vocab == calc_p_word(count_vocab_frequencies(Val(s1.tokenized_df)))
               s3 == [ Invoke(s2, "calc_p_word") EXCEPT
                         !.vocab_counts_df = Some(vocab),
                         !.vocab_counts_filtered_df = Some(filter_vocab(vocab)) ]
           IN  IF s1.err # "" THEN s1
               ELSE IF cvec_fit_raises(Val(s1.tokenized_df))
               THEN Raise(s2, "ValueError")
               ELSE IF IfSave(save)
               THEN Write(s3, vocab_counts_df_fid, write_df_vocab(vocab))
               ELSE s3
      ELSE s

\* ----------------------------------------------------------- text lengths
Isqrt(x) == CHOOSE k \in 0..x : k * k <= x /\ (k + 1) * (k + 1) > x

DocLengths(docs) == [i \in DOMAIN docs |-> Len(docs[i])]

\* prepare_length_df: the documents' lengths, shortest first.
prepare_length_df(docs) ==
  sort_values([ idx |-> "", cols |-> << "length" >>,
                rows |-> [i \in DOMAIN docs |->
                           [ label |-> "", cells |-> << << Len(docs[i]) >> >> ]] ],
              "length")

\* make_fig_lengths: the figure is the histogram of the lengths.
make_fig_lengths(docs) == [ histogram |-> DocLengths(docs) ]

\* prepare_text_length_stats on a corpus of two documents or more: the mean
\* and the sample standard deviation, in tenths, and the number of distinct
\* lengths.
text_length_stats(docs) ==
  LET n == Len(docs)
      lens == DocLengths(docs)
      total == SumOver(lens, DOMAIN docs)
      squares == SumOver([i \in DOMAIN docs |-> lens[i] * lens[i]], DOMAIN docs)
  IN  [ avg |-> (10 * total) \div n,
        std |-> Isqrt((100 * (n * squares - total * total)) \div (n * (n - 1))),
        num |-> Cardinality(Range(lens)) ]

\* load_or_prepare_text_lengths(load_only): the figure, then the length
\* dataframe, then the statistics.
text_lengths_fig(s0, load_only) ==
  LET s == Enter(s0, fig_tok_length_fid, use_cache)
  IN  IF UseCached(use_cache, fig_tok_length_fid, s.disk)
      THEN [ Read(s, fig_tok_length_fid) EXCEPT
               !.fig_tok_length_png = Some(s.disk[fig_tok_length_fid]) ]
      ELSE IF ~load_only
      THEN LET s1 == Invoke(s, "prepare_fig_text_lengths")
               fig == make_fig_lengths(Val(s.tokenized_df))
           IN  IF IsNone(s.tokenized_df) THEN Raise(s1, "AttributeError")
               ELSE IF IfSave(save)
               THEN Write([ s1 EXCEPT !.fig_tok_length = Some(fig) ],
                          fig_tok_length_fid, fig)
               ELSE [ s1 EXCEPT !.fig_tok_length = Some(fig) ]
      ELSE s

text_lengths_df(s0, load_only) ==
  LET s == Enter(s0, length_df_fid, use_cache)
  IN  IF s0.err # "" THEN s0
      ELSE IF UseCached(use_cache, length_df_fid, s.disk)
      THEN [ Read(s, length_df_fid) EXCEPT
               !.length_df = Some(read_df(s.disk[length_df_fid])) ]
      ELSE IF ~load_only
      THEN LET s1 == Invoke(s, "prepare_length_df")
               df == prepare_length_df(Val(s.tokenized_df))
           IN  IF IsNone(s.tokenized_df) THEN Raise(s1, "TypeError")
               ELSE IF IfSave(save)
               THEN Write([ s1 EXCEPT !.length_df = Some(df) ],
                          length_df_fid, write_df(df))
               ELSE [ s1 EXCEPT !.length_df = Some(df) ]
      ELSE s

\* prepare_text_length_stats: prepare_length_df again when there is no
\* length dataframe; the mean raises on no document, stdev on fewer than two.
prepare_text_length_stats(s0) ==
  LET s1 == Invoke(s0, "prepare_text_length_stats")
      docs == Val(s0.tokenized_df)
      s2 == IF IsNone(s1.length_df)
            THEN [ Invoke(s1, "prepare_length_df") EXCEPT
                     !.length_df = Some(prepare_length_df(docs)) ]
            ELSE s1
  IN  IF IsNone(s0.tokenized_df) THEN Raise(s1, "AttributeError")
      ELSE IF Len(docs) = 0 THEN Raise(s2, "ZeroDivisionError")
      ELSE IF Len(docs) < 2 THEN Raise(s2, "StatisticsError")
      ELSE [ s2 EXCEPT !.length_stats_dict = Some(text_length_stats(docs)) ]

text_lengths_stats(s0, load_only) ==
  LET s == Enter(s0, length_stats_json_fid, use_cache)
  IN  IF s0.err # "" THEN s0
      ELSE IF UseCached(use_cache, length_stats_json_fid, s.disk)
      THEN [ Read(s, length_stats_json_fid) EXCEPT
               !.length_stats_dict = Some(s.disk[length_stats_json_fid]) ]
      ELSE IF ~load_only
      THEN LET s1 == prepare_text_length_stats(s)
           IN  IF s1.err # "" THEN s1
               ELSE IF IfSave(save)
               THEN Write(s1, length_stats_json_fid, Val(s1.length_stats_dict))
               ELSE s1
      ELSE s

load_or_prepare_text_lengths(s, load_only) ==
  text_lengths_stats(text_lengths_df(text_lengths_fig(s, load_only), load_only),
                     load_only)

\* -------------------------------------------------------- text duplicates
\* The duplicates helper (data_measurements/text_duplicates), from its
\* specification: the share of documents that repeat another, per thousand.
DUPS_FRAC == "dups_frac"
find_duplicates(docs) ==
  IF Len(docs) = 0 THEN 0
  ELSE (1000 * Cardinality({ i \in DOMAIN docs :
                               \E j \in DOMAIN docs : j # i /\ docs[j] = docs[i] }))
       \div Len(docs)

\* td.DMTHelper(self, load_only, save).run_DMT_processing(): the cache
\* contract; None on a load-only miss.
run_DMT_processing(s0, load_only, save_arg) ==
  LET s == Enter(s0, dups_fid, use_cache)
  IN  IF UseCached(use_cache, dups_fid, s.disk)
      THEN [ Read(s, dups_fid) EXCEPT !.duplicates_results = Some(s.disk[dups_fid]) ]
      ELSE IF ~load_only
      THEN LET res == (DUPS_FRAC :> find_duplicates(Corpora[corpus]))
               s1 == [ Invoke(s, "find_duplicates") EXCEPT
                         !.duplicates_results = Some(res) ]
           IN  IF save_arg THEN Write(s1, dups_fid, res) ELSE s1
      ELSE [ s EXCEPT !.duplicates_results = None ]

\* load_or_prepare_text_duplicates(load_only, save, list_duplicates): the
\* helper's result, subscripted with the fraction's key.
load_or_prepare_text_duplicates(s0, load_only, save_arg) ==
  LET s == run_DMT_processing(s0, load_only, save_arg)
  IN  IF IsNone(s.duplicates_results) THEN Raise(s, "TypeError") ELSE s

\* ------------------------------------------------------ general statistics
TOT_WORDS == "total words"
TOT_OPEN_WORDS == "total open words"
TEXT_NAN_CNT == "text nan count"

\* sort_values("count", ascending=False).head(n) of a vocabulary table: its
\* words, most frequent first.
RECURSIVE TopWords(_, _, _)
TopWords(tab, S, n) ==
  IF S = {} \/ n = 0 THEN << >>
  ELSE LET best == { w \in S : \A v \in S : tab[v].count <= tab[w].count }
           w == SeqOfWords(best)[1]
       IN  << w >> \o TopWords(tab, S \ {w}, n - 1)

\* load_general_stats.
load_general_stats(s) ==
  [ Read(Read(s, general_stats_json_fid), sorted_top_vocab_df_fid) EXCEPT
      !.general_stats_dict = s.disk[general_stats_json_fid],
      !.sorted_top_vocab_df = Some(read_df(s.disk[sorted_top_vocab_df_fid])) ]

\* prepare_general_stats.
prepare_general_stats(s0) ==
  LET s1 == IF IsNone(s0.tokenized_df)
            THEN load_or_prepare_tokenized_df(s0, FALSE) ELSE s0
      s2 == IF IsNone(s1.vocab_counts_df)
            THEN load_or_prepare_vocab(s1, FALSE) ELSE s1
      filtered == Val(s2.vocab_counts_filtered_df).tab
  IN  IF s2.err # "" THEN s2
      ELSE [ Invoke(s2, "prepare_general_stats") EXCEPT
               !.sorted_top_vocab_df =
                   Some(TopWords(filtered, DOMAIN filtered, _TOP_N)),
               !.general_stats_dict =
                   (TOT_WORDS :> Cardinality(DOMAIN Val(s2.vocab_counts_df).tab))
                   @@ (TOT_OPEN_WORDS :> Cardinality(DOMAIN filtered))
                   @@ (TEXT_NAN_CNT :> 0)
                   @@ (DUPS_FRAC :> Val(s2.duplicates_results)[DUPS_FRAC]) ]

\* load_or_prepare_general_stats(load_only).
load_or_prepare_general_stats(s00, load_only) ==
  LET s0 == load_or_prepare_text_duplicates(s00, load_only, FALSE)
      s1 == [ s0 EXCEPT !.general_stats_dict = Val(s0.duplicates_results) @@ @ ]
      s == Enter(s1, general_stats_json_fid,
                 use_cache /\ sorted_top_vocab_df_fid \in DOMAIN s1.disk)
  IN  IF s0.err # "" THEN s0
      ELSE IF /\ UseCached(use_cache, general_stats_json_fid, s.disk)
              /\ sorted_top_vocab_df_fid \in DOMAIN s.disk
      THEN load_general_stats(s)
      ELSE IF ~load_only
      THEN LET s2 == prepare_general_stats(s)
           IN  IF s2.err # "" THEN s2
               ELSE IF IfSave(save)
               THEN Write(Write(s2, sorted_top_vocab_df_fid,
                                write_df(Val(s2.sorted_top_vocab_df))),
                          general_stats_json_fid, s2.general_stats_dict)
               ELSE s2
      ELSE s

\* ------------------------------------------------------ nPMI statistics
\* mkdir(self.pmi_dataset_cache_dir) unless the directory is there.
make_pmi_dir(s) ==
  IF pmi_dataset_cache_dir \notin s.dirs
  THEN [ s EXCEPT !.dirs = @ \cup {pmi_dataset_cache_dir},
                  !.wrote = @ \cup {pmi_dataset_cache_dir} ]
  ELSE s

\* nPMIStatisticsCacheClass.__init__(dataset_stats, load_only, use_cache).
npmi_init(s, load_only, uc) ==
  [ make_pmi_dir(s) EXCEPT !.npmi_stats =
      Some([ load_only |-> load_only, use_cache |-> uc,
             available_terms |-> _IDENTITY_TERMS ]) ]

\* A format string with nspecs conversion specifiers applied with % to nargs
\* arguments raises TypeError unless the two numbers agree.
PercentRaises(nspecs, nargs) == nspecs # nargs

\* The terms of the term list that are in the vocabulary at least
\* min_vocab_count times, in the term list's order.
scan_available_terms(vocab_df) ==
  LET word_list_tmp ==
        SelectSeq(_IDENTITY_TERMS, LAMBDA t : t \in DOMAIN vocab_df.tab)
  IN  SelectSeq(word_list_tmp,
                LAMBDA w : vocab_df.tab[w].count >= MIN_VOCAB_COUNT)

\* load_or_prepare_npmi_terms().  Its first statement formats
\* "Looking for cached terms in " (no conversion specifier) with one argument.
load_or_prepare_npmi_terms(s0) ==
  LET me == Val(s0.npmi_stats)
      s == Enter(s0, npmi_terms_fid, me.use_cache)
      Return(t, terms) ==
        [ t EXCEPT !.npmi_stats = Some([ me EXCEPT !.available_terms = terms ]),
                   !.ret = Some(terms) ]
  IN  IF s0.err # "" THEN s0
      ELSE IF PercentRaises(0, 1) THEN Raise(s, "TypeError")
      ELSE IF /\ UseCached(me.use_cache, npmi_terms_fid, s.disk)
              /\ s.disk[npmi_terms_fid] # << >>
      THEN Return(Read(s, npmi_terms_fid), s.disk[npmi_terms_fid])
      ELSE IF ~me.load_only
      THEN LET s1 == Invoke(s, "scan_available_terms")
           IN  IF IsNone(s.vocab_counts_df) THEN Raise(s1, "AttributeError")
               ELSE Return(Write(s1, npmi_terms_fid,
                                 scan_available_terms(Val(s.vocab_counts_df))),
                           scan_available_terms(Val(s.vocab_counts_df)))
      ELSE Raise(s, "UnboundLocalError")

\* DatasetStatisticsCacheClass.load_or_prepare_npmi(load_only).
load_or_prepare_npmi(s, load_only) ==
  load_or_prepare_npmi_terms(npmi_init(s, load_only, use_cache))

CalcMetricsStep(subgroup) == "calc_metrics:" \o subgroup

\* load_or_prepare_joint_npmi(subgroup_pair).
\* joint_npmi_loaded: the cached branch, given the table load_joint_npmi_df
\* read and the npmi_display_cols.
joint_npmi_loaded(s, r, cols) ==
  IF \E k \in DOMAIN cols : ~HasCol(r.df, cols[k])
  THEN Raise(s, "KeyError")
  ELSE [ s EXCEPT !.ret = Some(SelectCols(r.df, cols)) ]

\* joint_npmi_prepared: the other branch, given prepare_joint_npmi_df's
\* result r: the results are written whatever save is.
joint_npmi_prepared(s, subgroup_pair, r) ==
  LET s1 == [ s EXCEPT
                !.read = @ \cup UNION { Range(define_subgroup_files(g)) :
                                          g \in r.loaded },
                !.steps = @ \o [i \in DOMAIN r.calcs |-> CalcMetricsStep(r.calcs[i])]
                            \o (IF r.paired THEN << "calc_paired_metrics" >>
                                ELSE << >>) ]
  IN  IF r.err # "" THEN Raise(s1, r.err)
      ELSE [ s1 EXCEPT
               !.disk = Put(write_subgroup_npmi_data(subgroup_pair[2], r.dict,
                              write_subgroup_npmi_data(subgroup_pair[1], r.dict, @)),
                            JointNpmiFid(subgroup_pair), to_csv(r.UI_results)),
               !.wrote = @ \cup Range(define_subgroup_files(subgroup_pair[1]))
                           \cup Range(define_subgroup_files(subgroup_pair[2]))
                           \cup {JointNpmiFid(subgroup_pair)},
               !.ret = Some(r.UI_results) ]

\* joint_npmi_sorted: the body after the pair is sorted and the pmi
\* directory is there.
joint_npmi_sorted(s, subgroup_pair) ==
  IF UseCached(Val(s.npmi_stats).use_cache, JointNpmiFid(subgroup_pair), s.disk)
  THEN joint_npmi_loaded(Read(s, JointNpmiFid(subgroup_pair)),
                         load_joint_npmi_df(s.disk[JointNpmiFid(subgroup_pair)]),
                         npmi_display_cols(subgroup_pair[1], subgroup_pair[2]))
  ELSE joint_npmi_prepared(s, subgroup_pair,
         prepare_joint_npmi_df(subgroup_pair, s.disk, s.vocab_counts_df,
                               s.tokenized_df))

load_or_prepare_joint_npmi(s00, given_pair) ==
  joint_npmi_sorted(Enter(make_pmi_dir(s00), JointNpmiFid(Sorted(given_pair)),
                          Val(s00.npmi_stats).use_cache),
                    Sorted(given_pair))

\* ------------------------------------------------------------------ actions
NoCall(op) ==
  [ op |-> op, arg |-> << >>, load_only |-> FALSE, use_cache |-> FALSE,
    save |-> FALSE, steps |-> << >>, wrote |-> {}, read |-> {}, hits |-> {},
    err |-> "", ret |-> None ]

Fresh ==
  /\ tokenized_df = None
  /\ vocab_counts_df = None
  /\ vocab_counts_filtered_df = None
  /\ fig_tok_length = None
  /\ fig_tok_length_png = None
  /\ length_df = None
  /\ length_stats_dict = None
  /\ general_stats_dict = << >>
  /\ sorted_top_vocab_df = None
  /\ duplicates_results = None
  /\ npmi_stats = None

Init ==
  /\ corpus \in 1..NumCorpora
  /\ use_cache \in BOOLEAN
  /\ save \in BOOLEAN
  /\ disk = << >>
  /\ dirs = {}
  /\ Fresh
  /\ last = NoCall("__init__")

\* DatasetStatisticsCacheClass.__init__ in a later session over the same
\* dataset and cache directory.
Construct ==
  /\ use_cache' \in BOOLEAN
  /\ save' \in BOOLEAN
  /\ tokenized_df' = None
  /\ vocab_counts_df' = None
  /\ vocab_counts_filtered_df' = None
  /\ fig_tok_length' = None
  /\ fig_tok_length_png' = None
  /\ length_df' = None
  /\ length_stats_dict' = None
  /\ general_stats_dict' = << >>
  /\ sorted_top_vocab_df' = None
  /\ duplicates_results' = None
  /\ npmi_stats' = None
  /\ last' = NoCall("__init__")
  /\ UNCHANGED << corpus, disk, dirs >>

LoadOrPrepareTokenizedDf ==
  \E load_only \in BOOLEAN :
    Finish(load_or_prepare_tokenized_df(Start, load_only),
           "load_or_prepare_tokenized_df", << >>, load_only)

LoadOrPrepareVocab ==
  \E load_only \in BOOLEAN :
    Finish(load_or_prepare_vocab(Start, load_only),
           "load_or_prepare_vocab", << >>, load_only)

LoadOrPrepareTextLengths ==
  \E load_only \in BOOLEAN :
    Finish(load_or_prepare_text_lengths(Start, load_only),
           "load_or_prepare_text_lengths", << >>, load_only)

LoadOrPrepareTextDuplicates ==
  \E load_only \in BOOLEAN :
    Finish(load_or_prepare_text_duplicates(Start, load_only, TRUE),
           "load_or_prepare_text_duplicates", << >>, load_only)

LoadOrPrepareGeneralStats ==
  \E load_only \in BOOLEAN :
    Finish(load_or_prepare_general_stats(Start, load_only),
           "load_or_prepare_general_stats", << >>, load_only)

LoadOrPrepareNpmi ==
  \E load_only \in BOOLEAN :
    Finish(load_or_prepare_npmi(Start, load_only),
           "load_or_prepare_npmi", << >>, load_only)

\* npmi_stats.load_or_prepare_npmi_terms(), also get_available_terms().
LoadOrPrepareNpmiTerms ==
  /\ ~IsNone(npmi_stats)
  /\ Finish(load_or_prepare_npmi_terms(Start),
            "load_or_prepare_npmi_terms", << >>, Val(npmi_stats).load_only)

\* npmi_stats.load_or_prepare_joint_npmi(subgroup_pair) for two different
\* terms, in either order.
JointNpmiOver(terms) ==
  /\ ~IsNone(npmi_stats)
  /\ \E a \in terms, b \in terms :
       /\ a # b
       /\ Finish(load_or_prepare_joint_npmi(Start, << a, b >>),
                 "load_or_prepare_joint_npmi", << a, b >>,
                 Val(npmi_stats).load_only)

LoadOrPrepareJointNpmi == JointNpmiOver(PairTerms)

Next ==
  \/ Construct
  \/ LoadOrPrepareTokenizedDf
  \/ LoadOrPrepareVocab
  \/ LoadOrPrepareTextLengths
  \/ LoadOrPrepareTextDuplicates
  \/ LoadOrPrepareGeneralStats
  \/ LoadOrPrepareNpmi
  \/ LoadOrPrepareNpmiTerms
  \/ LoadOrPrepareJointNpmi

Spec == Init /\ [][Next]_vars

\* The nPMI side: the vocabulary (with the tokenized corpus) and the nPMI
\* statistics over it.
NextNpmi ==
  \/ Construct
  \/ LoadOrPrepareVocab
  \/ LoadOrPrepareNpmi
  \/ LoadOrPrepareNpmiTerms
  \/ LoadOrPrepareJointNpmi

SpecNpmi == Init /\ [][NextNpmi]_vars

\* The statistics side: the tokenized corpus, the vocabulary, the text
\* lengths and the general statistics.
NextStats ==
  \/ Construct
  \/ LoadOrPrepareTokenizedDf
  \/ LoadOrPrepareVocab
  \/ LoadOrPrepareTextLengths
  \/ LoadOrPrepareGeneralStats

SpecStats == Init /\ [][NextStats]_vars

\* Every load-or-prepare operation with a cache key of its own, the pair
\* being "she" and "he" in either order.
LoadOrPrepareJointNpmiSheHe == JointNpmiOver({"she", "he"})

NextCache ==
  \/ Construct
  \/ LoadOrPrepareTokenizedDf
  \/ LoadOrPrepareVocab
  \/ LoadOrPrepareTextLengths
  \/ LoadOrPrepareGeneralStats
  \/ LoadOrPrepareNpmi
  \/ LoadOrPrepareJointNpmiSheHe

SpecCache == Init /\ [][NextCache]_vars

\* ------------------------------------------------------------ properties
IsJointCall == last.op = "load_or_prepare_joint_npmi"
IsCall == last.op # "__init__"
StepsTaken == Range(last.steps)
\* The files the last call wrote (the directories it made left out).
FilesWritten == last.wrote \ {pmi_dataset_cache_dir}
PairFids == { JointNpmiFid(Sorted(<< a, b >>)) : a \in PairTerms, b \in PairTerms }
\* The vocabulary of the dataset and its terms of the term list that occur
\* min_vocab_count times or more.
DatasetVocab == calc_p_word(count_vocab_frequencies(Corpora[corpus]))
DatasetTerms == scan_available_terms(DatasetVocab)
\* The table load_or_prepare_joint_npmi computes for a pair when none of the
\* pair's files is persisted.
FreshTable(given) ==
  prepare_joint_npmi_df(Sorted(given), << >>, Some(DatasetVocab),
                        Some(Corpora[corpus])).UI_results
\* The call load_or_prepare_joint_npmi(given) made in the current state.
JointCall(given) == load_or_prepare_joint_npmi(Start, given)
Neg(cell) == IF cell = NaN THEN NaN ELSE << 0 - cell[1] >>

\* The compute steps of the artifact persisted under fid.
ComputeStepsOf(fid) ==
  IF fid = tokenized_df_fid THEN {"do_tokenization"}
  ELSE IF fid = vocab_counts_df_fid
  THEN {"count_vocab_frequencies", "calc_p_word"}
  ELSE IF fid = fig_tok_length_fid THEN {"prepare_fig_text_lengths"}
  ELSE IF fid = length_df_fid THEN {"prepare_length_df"}
  ELSE IF fid = length_stats_json_fid THEN {"prepare_text_length_stats"}
  ELSE IF fid = general_stats_json_fid THEN {"prepare_general_stats"}
  ELSE IF fid = dups_fid THEN {"find_duplicates"}
  ELSE IF fid \in PairFids
  THEN {"calc_paired_metrics"} \cup { CalcMetricsStep(g) : g \in PairTerms }
  ELSE {"scan_available_terms"}

\* The value persisted under fid is the one in memory (for a pair table: is
\* the one the call returned).
HoldsPersisted(fid) ==
  IF fid = tokenized_df_fid THEN tokenized_df = Some(read_df(disk[fid]))
  ELSE IF fid = vocab_counts_df_fid
  THEN vocab_counts_df = Some(_set_idx_col_names(read_df_vocab(disk[fid])))
  ELSE IF fid = fig_tok_length_fid THEN fig_tok_length_png = Some(disk[fid])
  ELSE IF fid = length_df_fid THEN length_df = Some(read_df(disk[fid]))
  ELSE IF fid = length_stats_json_fid THEN length_stats_dict = Some(disk[fid])
  ELSE IF fid = general_stats_json_fid
  THEN /\ general_stats_dict = disk[fid]
       /\ sorted_top_vocab_df = Some(read_df(disk[sorted_top_vocab_df_fid]))
  ELSE IF fid = dups_fid THEN duplicates_results = Some(disk[fid])
  ELSE IF fid \in PairFids
  THEN /\ IsJointCall
       /\ last.err = ""
       /\ LET pair == Sorted(last.arg)
          IN  last.ret = Some(SelectCols(load_joint_npmi_df(disk[fid]).df,
                                         npmi_display_cols(pair[1], pair[2])))
  ELSE Val(npmi_stats).available_terms = disk[fid]

\* C1: an artifact that is persisted under its key, with use_cache set, when
\* its load-or-prepare operation starts is read into memory by the operation,
\* and none of its compute steps is invoked.
C1_CacheHitLoadsWithoutCompute ==
  \A fid \in last.hits :
    /\ StepsTaken \cap ComputeStepsOf(fid) = {}
    /\ fid \in last.read
    /\ fid \notin last.wrote
    /\ HoldsPersisted(fid)

C1_Witness ==
  /\ IsJointCall
  /\ JointNpmiFid(Sorted(last.arg)) \in last.hits
  /\ last.steps = << >>
  /\ last.ret # None
  /\ Val(last.ret).rows # << >>

\* C2: a load-only request that finds no persisted artifact to use ends
\* without an error and yields no result.
C2_LoadOnlyMissIsAbsent ==
  (IsCall /\ last.load_only /\ last.hits = {}) =>
    (last.err = "" /\ last.ret = None)

\* C3: no operation invokes a compute step while load_only is set; the joint
\* table of a pair whose file is not persisted is then absent.
C3_LoadOnlyNeverComputes ==
  (IsCall /\ last.load_only) =>
    /\ last.steps = << >>
    /\ (IsJointCall /\ last.hits = {}) => last.ret = None

\* C4: an operation that computes (no cache hit, load_only unset) and returns
\* has written to the cache directory exactly when save is set.
C4_PersistedIffSave ==
  (IsCall /\ ~last.load_only /\ last.hits = {} /\ last.err = "") =>
    (last.save <=> FilesWritten # {})

\* C5: with use_cache and load_only unset no file is read, and a joint table
\* that is returned had calc_metrics invoked for both subgroups.
C5_NoCacheReadsNothing ==
  (IsCall /\ ~last.use_cache /\ ~last.load_only) =>
    /\ last.read = {}
    /\ (IsJointCall /\ last.err = "") =>
         { CalcMetricsStep(last.arg[1]), CalcMetricsStep(last.arg[2]) }
           \subseteq StepsTaken

\* C6: a joint request naming a term that is not available ends in an error,
\* with no compute step invoked and no file written.
C6_UnavailablePairRejected ==
  (IsJointCall /\ \E i \in 1..2 : last.arg[i] \notin Range(DatasetTerms)) =>
    /\ last.err # ""
    /\ last.steps = << >>
    /\ FilesWritten = {}

\* C7: a joint request for (A, B) derives the key that (B, A) derives and
\* touches no other pair file; once it has returned the file is persisted
\* under that key, and with use_cache set the request for (B, A) finds it and
\* computes nothing.
C7_PairKeySymmetric ==
  IsJointCall =>
    LET a == last.arg[1]
        b == last.arg[2]
        key == JointNpmiFid(Sorted(<< b, a >>))
        other == JointCall(<< b, a >>)
    IN  /\ JointNpmiFid(Sorted(<< a, b >>)) = key
        /\ (last.read \cup last.wrote) \cap PairFids \subseteq {key}
        /\ last.err = "" =>
             /\ key \in last.read \cup last.wrote
             /\ key \in DOMAIN disk
             /\ last.use_cache =>
                  /\ key \in other.hits
                  /\ key \in other.read
                  /\ other.steps = << >>

C7_Witness ==
  /\ IsJointCall
  /\ StrLess(last.arg[2], last.arg[1])
  /\ last.use_cache
  /\ last.err = ""
  /\ JointNpmiFid(Sorted(last.arg)) \in last.wrote

\* C8 (as the code has it): in any state, the joint request for (A, B) and
\* the one for (B, A) end alike and return the same table: the same words,
\* and the same bias for each word.
C8_PairOrderSameTable ==
  ~IsNone(npmi_stats) =>
    \A a \in PairTerms, b \in PairTerms :
      StrLess(a, b) =>
        LET AB == JointCall(<< a, b >>)
            BA == JointCall(<< b, a >>)
        IN  /\ AB.err = BA.err
            /\ AB.ret = BA.ret
            /\ AB.disk = BA.disk

\* A joint request in the unsorted order has computed a table with a word
\* whose bias is not zero.
C8_Witness ==
  /\ IsJointCall
  /\ StrLess(last.arg[2], last.arg[1])
  /\ "calc_paired_metrics" \in StepsTaken
  /\ last.err = ""
  /\ \E w \in Labels(Val(last.ret)) :
       CellAt(Val(last.ret), w, "npmi-bias") \notin {NaN, << 0 >>}
  /\ JointCall(last.arg).ret = JointCall(<< last.arg[2], last.arg[1] >>).ret

\* C8 (as stated): the tables of (A, B) and of (B, A) have the same words,
\* and each word's bias in the one is minus its bias in the other.
C8_PairOrderNegatesBias ==
  ~IsNone(npmi_stats) =>
    \A a \in PairTerms, b \in PairTerms :
      StrLess(a, b) =>
        LET AB == JointCall(<< a, b >>)
            BA == JointCall(<< b, a >>)
        IN  (AB.err = "" /\ BA.err = "") =>
              /\ Labels(Val(AB.ret)) = Labels(Val(BA.ret))
              /\ \A w \in Labels(Val(AB.ret)) :
                   CellAt(Val(AB.ret), w, "npmi-bias")
                     = Neg(CellAt(Val(BA.ret), w, "npmi-bias"))

\* C9: load_or_prepare_npmi_terms returns exactly the terms of the term list
\* that are in the vocabulary min_vocab_count times or more, and
\* get_available_terms then gives the same.
C9_AvailableTermsExact ==
  (last.op \in {"load_or_prepare_npmi", "load_or_prepare_npmi_terms"}) =>
    /\ last.err = ""
    /\ last.ret = Some(DatasetTerms)
    /\ Val(npmi_stats).available_terms = DatasetTerms

\* C10: the table a joint request computes and returns is the one computed
\* with none of the subgroups' tables persisted, whichever of them are.
C10_PartialCacheSameTable ==
  (IsJointCall /\ "calc_paired_metrics" \in StepsTaken /\ last.err = "") =>
    last.ret = Some(FreshTable(last.arg))

\* The same operation called again, with the same load_only, in the state the
\* last call left.
Again ==
  IF last.op = "load_or_prepare_tokenized_df"
  THEN load_or_prepare_tokenized_df(Start, last.load_only)
  ELSE IF last.op = "load_or_prepare_vocab"
  THEN load_or_prepare_vocab(Start, last.load_only)
  ELSE IF last.op = "load_or_prepare_npmi"
  THEN load_or_prepare_npmi(Start, last.load_only)
  ELSE Start
\* The key of the artifact of the last operation.
KeyOfLast ==
  IF last.op = "load_or_prepare_tokenized_df" THEN tokenized_df_fid
  ELSE IF last.op = "load_or_prepare_vocab" THEN vocab_counts_df_fid
  ELSE npmi_terms_fid

\* C11: after a load-or-prepare call of the tokenized corpus, the vocabulary
\* or the available terms made with use_cache set, the same call made again
\* ends without an error, reads the artifact from its file, invokes no compute
\* step and leaves the value the first call left.
C11_SecondCallLoadsSameValue ==
  (/\ last.op \in { "load_or_prepare_tokenized_df", "load_or_prepare_vocab",
                    "load_or_prepare_npmi" }
   /\ last.use_cache
   /\ ~last.load_only) =>
    /\ Again.err = ""
    /\ Again.steps = << >>
    /\ KeyOfLast \in Again.read
    /\ Again.tokenized_df = tokenized_df
    /\ Again.vocab_counts_df = vocab_counts_df
    /\ Again.vocab_counts_filtered_df = vocab_counts_filtered_df
    /\ Again.npmi_stats = npmi_stats

\* How many times the compute step was invoked in the steps.
TimesInvoked(steps, step) ==
  Cardinality({ i \in DOMAIN steps : steps[i] = step })

\* C12: one call of load_or_prepare_general_stats or load_or_prepare_vocab
\* invokes do_tokenization at most once, and not at all when the tokenized
\* corpus is in memory when the call starts.
C12_TokenizesOnlyWhenMissing ==
  [][ (last'.op \in { "load_or_prepare_general_stats", "load_or_prepare_vocab" }) =>
        /\ TimesInvoked(last'.steps, "do_tokenization") <= 1
        /\ ~IsNone(tokenized_df) =>
             TimesInvoked(last'.steps, "do_tokenization") = 0 ]_vars

\* The compute steps of the nPMI statistics: the available-terms scan and the
\* engine's steps of do_npmi.
NpmiComputeSteps ==
  {"scan_available_terms", "calc_paired_metrics"}
    \cup { CalcMetricsStep(g) : g \in PairTerms }
\* The compute steps of load_or_prepare_text_lengths.
LengthComputeSteps ==
  {"prepare_fig_text_lengths", "prepare_length_df", "prepare_text_length_stats"}

\* C13: a call in which the available-terms scan or the nPMI engine ran had
\* the vocabulary and the tokenized corpus in memory, and a call of
\* load_or_prepare_text_lengths that computed had the tokenized corpus in
\* memory (none of these calls assigns either attribute).
C13_PrerequisitesPresentWhenComputing ==
  /\ (/\ last.op \in { "load_or_prepare_npmi", "load_or_prepare_joint_npmi" }
      /\ StepsTaken \cap NpmiComputeSteps # {}) =>
       (~IsNone(vocab_counts_df) /\ ~IsNone(tokenized_df))
  /\ (/\ last.op = "load_or_prepare_text_lengths"
      /\ StepsTaken \cap LengthComputeSteps # {}) =>
       ~IsNone(tokenized_df)

\* ----------------------------------------------- the vocabulary functions
\* count_vocab_frequencies, calc_p_word and filter_vocab applied, once each
\* and in the order of load_or_prepare_vocab, to the tokenized dataframes and
\* count tables a caller may hand them, and the engine's calc_metrics over
\* the vocabulary made.
MaxDocs == 3
MaxCount == 2
MaxBatches == 5

\* The documents a tokenized dataframe of the model is made of.
DocPool ==
  << << "the", "cat", "sat" >>,
     << "the", "dog", "sat" >>,
     << "cat", "and", "dog", "play" >>,
     << "The", "cat", "cat" >>,
     << "the", "and" >>,
     << >> >>
TokenizedInputs == UNION { [1..n -> Range(DocPool)] : n \in 0..MaxDocs }

\* The count tables calc_p_word is handed directly.
WordCountInputs ==
  UNION { [W -> 0..MaxCount] : W \in SUBSET {"cat"} }

\* A dataset given as its tokenized dataframe (none of Corpora), nothing
\* else prepared.
InitVocab ==
  /\ corpus = 0
  /\ use_cache = FALSE
  /\ save = FALSE
  /\ disk = << >>
  /\ dirs = {}
  /\ tokenized_df \in { Some(docs) : docs \in TokenizedInputs }
  /\ vocab_counts_df = None
  /\ vocab_counts_filtered_df = None
  /\ fig_tok_length = None
  /\ fig_tok_length_png = None
  /\ length_df = None
  /\ length_stats_dict = None
  /\ general_stats_dict = << >>
  /\ sorted_top_vocab_df = None
  /\ duplicates_results = None
  /\ npmi_stats = None
  /\ last = NoCall("__init__")

\* word_count_df = count_vocab_frequencies(self.tokenized_df).
CountVocabFrequencies ==
  /\ last.op = "__init__"
  /\ last' = IF cvec_fit_raises(Val(tokenized_df))
             THEN [ NoCall("count_vocab_frequencies") EXCEPT
                      !.arg = Val(tokenized_df),
                      !.steps = << "count_vocab_frequencies" >>,
                      !.err = "ValueError" ]
             ELSE [ NoCall("count_vocab_frequencies") EXCEPT
                      !.arg = Val(tokenized_df),
                      !.steps = << "count_vocab_frequencies" >>,
                      !.ret = Some(count_vocab_frequencies(Val(tokenized_df))) ]
  /\ UNCHANGED << corpus, use_cache, save, disk, dirs, tokenized_df,
                  vocab_counts_df, vocab_counts_filtered_df, fig_tok_length,
                  fig_tok_length_png, length_df, length_stats_dict,
                  general_stats_dict, sorted_top_vocab_df, duplicates_results,
                  npmi_stats >>

\* self.vocab_counts_df = calc_p_word(word_count_df), of the table just
\* counted or of one handed in.
CalcPWord ==
  \E word_count_df \in
        WordCountInputs
          \cup (IF last.op = "count_vocab_frequencies" /\ last.err = ""
                THEN { Val(last.ret) } ELSE {}) :
    /\ IsNone(vocab_counts_df)
    /\ vocab_counts_df' = Some(calc_p_word(word_count_df))
    /\ last' = [ NoCall("calc_p_word") EXCEPT
                   !.arg = word_count_df,
                   !.steps = << "calc_p_word" >>,
                   !.ret = Some(calc_p_word(word_count_df)) ]
    /\ UNCHANGED << corpus, use_cache, save, disk, dirs, tokenized_df,
                    vocab_counts_filtered_df, fig_tok_length,
                    fig_tok_length_png, length_df, length_stats_dict,
                    general_stats_dict, sorted_top_vocab_df,
                    duplicates_results, npmi_stats >>

\* self.vocab_counts_filtered_df = filter_vocab(self.vocab_counts_df).
FilterVocab ==
  /\ ~IsNone(vocab_counts_df)
  /\ IsNone(vocab_counts_filtered_df)
  /\ vocab_counts_filtered_df' = Some(filter_vocab(Val(vocab_counts_df)))
  /\ last' = [ NoCall("filter_vocab") EXCEPT
                 !.arg = Val(vocab_counts_df),
                 !.steps = << "filter_vocab" >>,
                 !.ret = Some(filter_vocab(Val(vocab_counts_df))) ]
  /\ UNCHANGED << corpus, use_cache, save, disk, dirs, tokenized_df,
                  vocab_counts_df, fig_tok_length, fig_tok_length_png,
                  length_df, length_stats_dict, general_stats_dict,
                  sorted_top_vocab_df, duplicates_results, npmi_stats >>

\* nPMI(self.dstats.vocab_counts_df, self.dstats.tokenized_df)
\* .calc_metrics(subgroup), as do_npmi calls it, for a term of the vocabulary
\* counted from the dataframe.
CalcMetrics ==
  /\ ~IsNone(vocab_counts_df)
  /\ DOMAIN Val(vocab_counts_df).tab = Vocabulary(Val(tokenized_df))
  /\ last.op # "calc_metrics"
  /\ \E subgroup \in {"cat", "the"} \cap Vocabulary(Val(tokenized_df)) :
       last' = [ NoCall("calc_metrics") EXCEPT
                   !.arg = << subgroup >>,
                   !.steps = << CalcMetricsStep(subgroup) >>,
                   !.ret = Some(calc_metrics(subgroup, Val(vocab_counts_df),
                                             Val(tokenized_df))) ]
  /\ UNCHANGED << corpus, use_cache, save, disk, dirs, tokenized_df,
                  vocab_counts_df, vocab_counts_filtered_df, fig_tok_length,
                  fig_tok_length_png, length_df, length_stats_dict,
                  general_stats_dict, sorted_top_vocab_df, duplicates_results,
                  npmi_stats >>

NextVocab ==
  \/ CountVocabFrequencies
  \/ CalcPWord
  \/ FilterVocab
  \/ CalcMetrics

SpecVocab == InitVocab /\ [][NextVocab]_vars

\* The accumulation of count_vocab_frequencies over num batch edges in place
\* of _NUM_VOCAB_BATCHES.
CountsInBatches(docs, num) ==
  [w \in Vocabulary(docs) |->
    SumOver([r \in DOMAIN docs |->
              Cardinality({ i \in 0..(num - 2) :
                /\ (i * Len(docs)) \div (num - 1) <= r - 1
                /\ r - 1 < ((i + 1) * Len(docs)) \div (num - 1) })
              * Occurrences(docs[r], w)],
            DOMAIN docs)]

\* The number of occurrences of each word over all the documents.
TotalOccurrences(docs) ==
  [w \in Vocabulary(docs) |->
    SumOver([r \in DOMAIN docs |-> Occurrences(docs[r], w)], DOMAIN docs)]

ExampleCorpus == << DocPool[1], DocPool[2], DocPool[3] >>
ExampleCounts ==
  ("the" :> 2) @@ ("cat" :> 2) @@ ("sat" :> 2) @@ ("dog" :> 2)
    @@ ("and" :> 1) @@ ("play" :> 1)

C15_FilterDropsClosedClass ==
  (last.op = "filter_vocab") =>
    LET V == last.arg.tab
        F == Val(last.ret).tab
    IN  /\ last.err = ""
        /\ DOMAIN F = DOMAIN V \ _CLOSED_CLASS
        /\ \A w \in DOMAIN F : F[w].count = V[w].count
        /\ "the" \notin DOMAIN F
        /\ "The" \in DOMAIN V => "The" \in DOMAIN F

\* A vocabulary with "The", "the" and an open-class word was filtered, most
\* members of the closed class being absent from it.
C15_Witness ==
  /\ last.op = "filter_vocab"
  /\ {"The", "the", "cat"} \subseteq DOMAIN last.arg.tab
  /\ _CLOSED_CLASS \ DOMAIN last.arg.tab # {}
  /\ DOMAIN Val(last.ret).tab = DOMAIN last.arg.tab \ {"the", "and"}
  /\ Val(last.ret).tab["cat"].count = last.arg.tab["cat"].count

\* Each proportion of the vocabulary table (count / total) is the count over
\* the sum of the table's counts, and the proportions sum to 1: that sum is
\* not 0.
ProportionsSumToOne(v) ==
  LET sum == SumOver([x \in DOMAIN v.tab |-> v.tab[x].count], DOMAIN v.tab)
  IN  /\ \A w \in DOMAIN v.tab : v.tab[w].total = sum
      /\ sum # 0

\* C16: in the vocabulary calc_p_word makes of a table of counts of 1 or
\* more, and in the filtered vocabulary filter_vocab makes of such a
\* vocabulary (the one with no word left included), each proportion is the
\* count over the sum of the table's counts, and the proportions sum to 1.
C16_ProportionsSumToOne ==
  /\ (/\ last.op = "calc_p_word"
      /\ DOMAIN last.arg # {}
      /\ \A w \in DOMAIN last.arg : last.arg[w] > 0) =>
       ProportionsSumToOne(Val(last.ret))
  /\ (/\ last.op = "filter_vocab"
      /\ ProportionsSumToOne(last.arg)) =>
       ProportionsSumToOne(Val(last.ret))

FirstSorted == IF StrLess(last.arg[2], last.arg[1]) THEN last.arg[2] ELSE last.arg[1]
SecondSorted == IF StrLess(last.arg[2], last.arg[1]) THEN last.arg[1] ELSE last.arg[2]
\* The cell of row i of the table in column c.
CellOfRow(df, i, c) == df.rows[i].cells[ColPos(df, c)]

C19_SortedByBiasAscending ==
  (IsJointCall /\ last.err = "") => IsSortedBy(Val(last.ret), "npmi-bias")

\* A joint request has read from the pair file a table of three rows or more
\* whose first bias is below zero and whose last is above.
C19_Witness ==
  /\ IsJointCall
  /\ last.err = ""
  /\ JointNpmiFid(<< FirstSorted, SecondSorted >>) \in last.hits
  /\ Len(Val(last.ret).rows) >= 3
  /\ CellOfRow(Val(last.ret), 1, "npmi-bias")[1] < 0
  /\ CellOfRow(Val(last.ret), Len(Val(last.ret).rows), "npmi-bias")[1] > 0

IndexColumnNames == { "", WORD, VOCAB, "term" }
RecognizedIndexColumns == { "", WORD, VOCAB }
IsCsvFid(fid) ==
  \/ \E g \in PairTerms : fid \in Range(define_subgroup_files(g))
  \/ \E a \in PairTerms, b \in PairTerms : fid = JointNpmiFid(<< a, b >>)
SavedWithIndexColumn(d, name) ==
  [fid \in DOMAIN d |->
    IF IsCsvFid(fid) THEN [ d[fid] EXCEPT !.header = << name >> \o Tail(@) ]
    ELSE d[fid]]

\* DatasetStatisticsCacheClass.__init__ in a later session over a cache
\* directory whose csv tables were saved with that index column name.
ConstructOverSavedLayout ==
  /\ \E name \in IndexColumnNames : disk' = SavedWithIndexColumn(disk, name)
  /\ use_cache' \in BOOLEAN
  /\ save' \in BOOLEAN
  /\ tokenized_df' = None
  /\ vocab_counts_df' = None
  /\ vocab_counts_filtered_df' = None
  /\ fig_tok_length' = None
  /\ fig_tok_length_png' = None
  /\ length_df' = None
  /\ length_stats_dict' = None
  /\ general_stats_dict' = << >>
  /\ sorted_top_vocab_df' = None
  /\ duplicates_results' = None
  /\ npmi_stats' = None
  /\ last' = NoCall("__init__")
  /\ UNCHANGED << corpus, dirs >>

NextLayout ==
  \/ ConstructOverSavedLayout
  \/ LoadOrPrepareVocab
  \/ LoadOrPrepareNpmi
  \/ LoadOrPrepareJointNpmiSheHe

SpecLayout == Init /\ [][NextLayout]_vars

\* The index column names of the csv tables the last call read.
IndexColumnsRead == { disk[fid].header[1] : fid \in last.read }

\* C22: a joint request that read persisted tables and returned gives a table
\* indexed by the words under the canonical index name, whichever recognized
\* column the tables were saved with; when a table it read has none of the
\* recognized index columns the request ends in an error.
C22_LoadNormalizesOrRaises ==
  (IsJointCall /\ last.read # {}) =>
    /\ last.err = "" =>
         /\ Val(last.ret).idx = WORD
         /\ Labels(Val(last.ret)) \subseteq Range(AllWords) \cup {NaNLabel}
    /\ ~(IndexColumnsRead \subseteq RecognizedIndexColumns) => last.err # ""


\* C23: load_or_prepare_npmi_terms returns the persisted record of available
\* terms untouched, without scanning the vocabulary, when use_cache is set and
\* the record is there with a non-empty list; otherwise, unless load_only, it
\* scans the vocabulary, returns the terms found and rewrites the record.
C23_TrustsNonEmptyRecord ==
  (last.op = "load_or_prepare_npmi_terms" /\ ~IsNone(vocab_counts_df)) =>
    IF /\ npmi_terms_fid \in last.hits
       /\ npmi_terms_fid \notin last.wrote
       /\ disk[npmi_terms_fid] # << >>
    THEN /\ last.err = ""
         /\ last.ret = Some(disk[npmi_terms_fid])
         /\ last.steps = << >>
    ELSE ~last.load_only =>
           /\ last.err = ""
           /\ last.ret = Some(scan_available_terms(Val(vocab_counts_df)))
           /\ npmi_terms_fid \in last.wrote
           /\ disk[npmi_terms_fid] = scan_available_terms(Val(vocab_counts_df))


\* The subgroups of a pair whose three tables (npmi, pmi, count) are all
\* persisted in d.
CachedSubgroups(pair, d) ==
  { g \in Range(pair) : Range(define_subgroup_files(g)) \subseteq DOMAIN d }

C25_SubgroupTablesKeyedByTerm ==
  [][ (last'.op = "load_or_prepare_joint_npmi") =>
      LET pair == Sorted(last'.arg)
          cached == CachedSubgroups(pair, disk)
      IN  \A A \in cached : \A C \in Range(pair) \ cached :
            /\ last'.steps \in { << CalcMetricsStep(C) >>,
                                 << CalcMetricsStep(C), "calc_paired_metrics" >> }
            /\ Range(define_subgroup_files(A)) \subseteq last'.read
    ]_vars

\* The pair (he, she) was computed and persisted; the request for (she, they)
\* read the tables of she and computed those of they.
C25_Witness ==
  /\ IsJointCall
  /\ Sorted(last.arg) = << "she", "they" >>
  /\ JointNpmiFid(<< "he", "she" >>) \in DOMAIN disk
  /\ Range(define_subgroup_files("she")) \subseteq last.read
  /\ last.steps = << CalcMetricsStep("they"), "calc_paired_metrics" >>


\* ------------------------------------------------------ the join's corpora
\* The joint requests over the first two corpora, in which the subgroups'
\* tables differ in their words, and over the single-document corpus, in
\* which every npmi is 0/0.
JoinCorpora == { 1, 2, 3 }
InitJoin ==
  /\ corpus \in JoinCorpora
  /\ use_cache \in BOOLEAN
  /\ save \in BOOLEAN
  /\ disk = << >>
  /\ dirs = {}
  /\ Fresh
  /\ last = NoCall("__init__")
SpecJoin == InitJoin /\ [][NextNpmi]_vars

\* The npmi table calc_metrics gives for a subgroup of the dataset.
DatasetNpmi(g) == MetricsOfCorpus[corpus][g][3]
\* The label is a word of the table, as it is or as read_csv gives it back.
LabelIn(l, df) ==
  \/ l \in Labels(df)
  \/ l = NaNLabel /\ Labels(df) \cap NA_VALUES # {}
\* The word's cell, under the label as it is or as read_csv gives it back.
NpmiOf(l, g) ==
  CellAt(DatasetNpmi(g),
         IF l = NaNLabel THEN CHOOSE w \in Labels(DatasetNpmi(g)) \cap NA_VALUES : TRUE
         ELSE l,
         g \o "-npmi")
\* The rows of a table or csv file in which every cell has a value.
AllRowsComplete(rows) == \A i \in DOMAIN rows : ~HasNaN(rows[i])

\* C26: the table a joint request returns, computed or loaded, has a value in
\* each of its five columns (bias, both npmi, both counts) in every row; each
\* of its words has a row with a value in both subgroups' npmi tables; and the
\* pair file holds complete rows only.
C26_OnlyCompleteSharedRows ==
  (IsJointCall /\ last.err = "") =>
    LET pair == Sorted(last.arg)
        ret == Val(last.ret)
    IN  /\ Len(ret.cols) = 5
        /\ AllRowsComplete(ret.rows)
        /\ \A w \in Labels(ret) : \A k \in 1..2 :
             /\ LabelIn(w, DatasetNpmi(pair[k]))
             /\ NpmiOf(w, pair[k]) # NaN
        /\ JointNpmiFid(pair) \in DOMAIN disk =>
             AllRowsComplete(disk[JointNpmiFid(pair)].lines)

\* A computed table that leaves out a word only one subgroup's table has
\* ("the": with she, not with he), and one that leaves out the words whose npmi
\* is missing.
C26_Witness ==
  /\ IsJointCall
  /\ last.err = ""
  /\ Sorted(last.arg) = << "he", "she" >>
  /\ "calc_paired_metrics" \in Range(last.steps)
  /\ \/ /\ "the" \in Labels(DatasetNpmi("she")) \ Labels(DatasetNpmi("he"))
        /\ Labels(Val(last.ret)) # {}
     \/ /\ "doctor" \in Labels(DatasetNpmi("she")) \cap Labels(DatasetNpmi("he"))
        /\ CellAt(DatasetNpmi("she"), "doctor", "she-npmi") = NaN


\* C27: the vocabulary and the filtered vocabulary in memory are both absent
\* or both present, and the filtered vocabulary is then the vocabulary with
\* the closed-class words taken out (its words are words of the vocabulary),
\* whether the vocabulary was read from the cache or computed.
C27_FilteredFollowsVocabulary ==
  /\ IsNone(vocab_counts_df) <=> IsNone(vocab_counts_filtered_df)
  /\ ~IsNone(vocab_counts_df) =>
       /\ Val(vocab_counts_filtered_df) = filter_vocab(Val(vocab_counts_df))
       /\ DOMAIN Val(vocab_counts_filtered_df).tab
            = DOMAIN Val(vocab_counts_df).tab \ _CLOSED_CLASS

\* The vocabulary was read from the cache and holds a closed-class word that
\* the filtered vocabulary lacks.
C27_Witness ==
  /\ last.op = "load_or_prepare_vocab"
  /\ vocab_counts_df_fid \in last.read
  /\ ~IsNone(vocab_counts_filtered_df)
  /\ "the" \in DOMAIN Val(vocab_counts_df).tab
  /\ "the" \notin DOMAIN Val(vocab_counts_filtered_df).tab


\* C28: an operation called with load_only set, the construction of the nPMI
\* object included, makes no directory and writes no file.
C28_LoadOnlyWritesNothing ==
  (IsCall /\ last.load_only) => last.wrote = {}


\* C29: whenever the pair file of two terms is persisted, the three tables
\* (npmi, pmi, count) of each of the two terms are persisted too.
C29_PairFileImpliesSubgroupFiles ==
  \A a \in PairTerms, b \in PairTerms :
    (a # b /\ JointNpmiFid(Sorted(<< a, b >>)) \in DOMAIN disk) =>
      /\ Range(define_subgroup_files(a)) \subseteq DOMAIN disk
      /\ Range(define_subgroup_files(b)) \subseteq DOMAIN disk

\* A joint request has written the pair file of he and she, and a subgroup
\* outside the pair has no table yet.
C29_Witness ==
  /\ IsJointCall
  /\ JointNpmiFid(<< "he", "she" >>) \in last.wrote
  /\ JointNpmiFid(<< "he", "she" >>) \in DOMAIN disk
  /\ Range(define_subgroup_files("they")) \cap DOMAIN disk = {}


\* ------------------------------------------------------- cache file names
\* The file names load_or_prepare_joint_npmi makes for a pair of two different
\* terms of the term list: sorted(subgroup_pair), joint_npmi_fid and
\* define_subgroup_files(subgroup_pair, pmi_dataset_cache_dir); the names
\* depend on nothing but the pair, so one pair is named in a behaviour.
DefineSubgroupFiles ==
  /\ last.op = "__init__"
  /\ \E a \in Range(_IDENTITY_TERMS), b \in Range(_IDENTITY_TERMS) :
       /\ a # b
       /\ last' = [ NoCall("define_subgroup_files") EXCEPT
                      !.arg = << a, b >>,
                      !.ret = Some(<< JointNpmiFid(Sorted(<< a, b >>)),
                                      define_subgroup_files(Sorted(<< a, b >>)[1]),
                                      define_subgroup_files(Sorted(<< a, b >>)[2]) >>) ]
  /\ UNCHANGED << corpus, use_cache, save, disk, dirs, tokenized_df,
                  vocab_counts_df, vocab_counts_filtered_df, fig_tok_length,
                  fig_tok_length_png, length_df, length_stats_dict,
                  general_stats_dict, sorted_top_vocab_df, duplicates_results,
                  npmi_stats >>

NextKeys == DefineSubgroupFiles

SpecKeys == Init /\ [][NextKeys]_vars

\* C30: over the term list, the pair file name of two terms is the pair file
\* name of no other two terms, and is none of the three file names of any
\* single term.
C30_FileNamesNeverCollide ==
  (last.op = "define_subgroup_files") =>
    LET joint_npmi_fid == Val(last.ret)[1]
    IN  /\ \A a \in Range(_IDENTITY_TERMS), b \in Range(_IDENTITY_TERMS) :
             (a # b /\ JointNpmiFid(Sorted(<< a, b >>)) = joint_npmi_fid) =>
               { a, b } = Range(last.arg)
        /\ \A t \in Range(_IDENTITY_TERMS) :
             joint_npmi_fid \notin Range(define_subgroup_files(t))

\* The file names of a pair with the hyphenated term.
C30_Witness ==
  /\ last.op = "define_subgroup_files"
  /\ last.arg = << "they", "non-binary" >>
  /\ Val(last.ret)[1] = "pmi_files/non-binary-they_npmi.csv"
  /\ Val(last.ret)[2][1] = "pmi_files/non-binary_npmi.csv"


\* ------------------------------------------------- text length statistics
\* prepare_text_length_stats() on a tokenized dataframe handed in, with no
\* length dataframe made yet.
PrepareTextLengthStats ==
  /\ last.op = "__init__"
  /\ Finish(prepare_text_length_stats(Start), "prepare_text_length_stats",
            << >>, FALSE)

NextLengths == PrepareTextLengthStats

SpecLengths == InitVocab /\ [][NextLengths]_vars

\* The record prepare_text_length_stats leaves holds the mean, the standard
\* deviation and a number of distinct lengths from 1 to the number of
\* documents.
LengthStatsOf(docs) ==
  /\ ~IsNone(length_stats_dict)
  /\ DOMAIN Val(length_stats_dict) = { "avg", "std", "num" }
  /\ Val(length_stats_dict).num >= 1
  /\ Val(length_stats_dict).num <= Len(docs)

\* C31: prepare_text_length_stats on a tokenized corpus of one document or
\* more ends without an error and leaves the record of the mean length, the
\* standard deviation and the number of distinct document lengths, that
\* number being from 1 to the number of documents.
C31_LengthStatsForNonEmptyCorpus ==
  (last.op = "prepare_text_length_stats" /\ Len(Val(tokenized_df)) >= 1) =>
    /\ last.err = ""
    /\ LengthStatsOf(Val(tokenized_df))


\* ---------------------------------------------------- measurement factory
\* (measurements/base.py)  A measurement class is given by the mixins among
\* its bases; keyword arguments are a function from their names.
issubclass(measurement, base) == base \in measurement

\* The whole of kwargs handed on to the constructor.
create_forwarding_kwargs(measurement, kwargs) ==
  [ err |-> "", arguments |-> kwargs ]
\* DataMeasurementFactory.create(measurement, **kwargs): the keyword arguments
\* the constructor is called with, or the KeyError of a kwargs[...] lookup.
create(measurement, kwargs) ==
  LET arguments0 == "feature" :> kwargs["feature"]
      arguments1 ==
        IF issubclass(measurement, "TokenizedDatasetMixin")
        THEN ("tokenizer" :> kwargs["tokenizer"]) @@ arguments0
        ELSE arguments0
      arguments2 ==
        IF issubclass(measurement, "LabelMeasurementMixin")
        THEN ("feature" :> kwargs["label"]) @@ arguments1
        ELSE arguments1
  IN  IF "feature" \notin DOMAIN kwargs THEN [ err |-> "KeyError" ]
      ELSE IF /\ issubclass(measurement, "TokenizedDatasetMixin")
              /\ "tokenizer" \notin DOMAIN kwargs
      THEN [ err |-> "KeyError" ]
      ELSE IF /\ issubclass(measurement, "LabelMeasurementMixin")
              /\ "label" \notin DOMAIN kwargs
      THEN [ err |-> "KeyError" ]
      ELSE [ err |-> "", arguments |-> arguments2 ]

\* DataMeasurementFactory.create for a measurement class with any of the two
\* mixins and any keyword arguments among feature, tokenizer, label and one
\* more; arg is <<measurement, kwargs>>, ret the constructor's keyword
\* arguments.
FactoryCreate ==
  /\ last.op = "__init__"
  /\ \E measurement \in SUBSET { "TokenizedDatasetMixin", "LabelMeasurementMixin" },
        names \in SUBSET { "feature", "tokenizer", "label", "dataset" } :
       \E kwargs \in [names -> { "text", "label" }] :
         last' = IF create(measurement, kwargs).err # ""
                 THEN [ NoCall("create") EXCEPT
                          !.arg = << measurement, kwargs >>,
                          !.err = create(measurement, kwargs).err ]
                 ELSE [ NoCall("create") EXCEPT
                          !.arg = << measurement, kwargs >>,
                          !.ret = Some(create(measurement, kwargs).arguments) ]
  /\ UNCHANGED << corpus, use_cache, save, disk, dirs, tokenized_df,
                  vocab_counts_df, vocab_counts_filtered_df, fig_tok_length,
                  fig_tok_length_png, length_df, length_stats_dict,
                  general_stats_dict, sorted_top_vocab_df, duplicates_results,
                  npmi_stats >>

NextFactory == FactoryCreate

SpecFactory == Init /\ [][NextFactory]_vars

\* C32: the constructor is called with a tokenizer argument, the one given,
\* exactly when the class has TokenizedDatasetMixin; with feature the label
\* given when it has LabelMeasurementMixin and the feature given otherwise;
\* and with no other keyword argument.
C32_FactoryForwardsFeatureAndTokenizer ==
  (last.op = "create" /\ last.err = "") =>
    LET measurement == last.arg[1]
        kwargs == last.arg[2]
        arguments == Val(last.ret)
    IN  /\ ("tokenizer" \in DOMAIN arguments)
             <=> ("TokenizedDatasetMixin" \in measurement)
        /\ "tokenizer" \in DOMAIN arguments =>
             arguments["tokenizer"] = kwargs["tokenizer"]
        /\ "feature" \in DOMAIN arguments
        /\ arguments["feature"] =
             IF "LabelMeasurementMixin" \in measurement
             THEN kwargs["label"] ELSE kwargs["feature"]
        /\ DOMAIN arguments \subseteq { "feature", "tokenizer" }

\* A class with both mixins, created with a feature, a label that differs, a
\* tokenizer and one more keyword argument.
C32_Witness ==
  /\ last.op = "create"
  /\ last.err = ""
  /\ last.arg[1] = { "TokenizedDatasetMixin", "LabelMeasurementMixin" }
  /\ DOMAIN last.arg[2] = { "feature", "tokenizer", "label", "dataset" }
  /\ last.arg[2]["feature"] # last.arg[2]["label"]
  /\ Val(last.ret)["feature"] = last.arg[2]["label"]

====
